---- MODULE Spec2Model ----
(***************************************************************************)
(* Classy-CSV (src/classy_csv/classy_csv.py): CSVLine, CSVColumns,         *)
(* csvfield, load, loads, dump, dumps.                                     *)
(*                                                                         *)
(* Text is a sequence of one-character strings.  Python values are tagged  *)
(* records whose field t is the runtime type ("str", "int", "NoneType").   *)
(* A call that can raise returns a record whose err field is "ok" or the   *)
(* kind of the exception.                                                  *)
(***************************************************************************)
EXTENDS Integers, Sequences, FiniteSets, TLC

\* mode:    "objects" (the caller builds records and dumps them) or "text"
\*          (the caller loads a text)
\* table:   the constructor arguments of the records to build, one entry each
\* made:    the outcome of each CSVLine construction so far
\* columns: the outcome of the CSVColumns construction from table's columns
\* source:  the text the caller loads
\* wrote:   the outcome of dump for the list of records and for the columns
\* loaded:  the outcome of loads under a CSVLine and a CSVColumns subclass
\* redump:  the outcome of dumps of a loaded value
\* viewed:  the outcome of iterating a columns record
VARIABLES mode, table, made, columns, source, wrote, loaded, redump, viewed

vars == <<mode, table, made, columns, source, wrote, loaded, redump, viewed>>

\* ------------------------------------------------------------------ bounds

\* Largest number of records of a collection and of data lines of a text.
MaxRows == 2

\* ------------------------------------------------------------ Python values

\* Op applied to the value of v: v is evaluated once, however often Op uses
\* its argument (a local variable assigned once)
Bind(v, Op(_)) == CHOOSE y \in {Op(x) : x \in {v}} : TRUE

\* a value: its runtime type t, its characters s when a str, its number n
\* when an int
StrV(chars) == [t |-> "str", s |-> chars, n |-> 0]
IntV(num) == [t |-> "int", s |-> <<>>, n |-> num]
None == [t |-> "NoneType", s |-> <<>>, n |-> 0]

Digits == <<"0", "1", "2", "3", "4", "5", "6", "7", "8", "9">>

IsDigit(c) == \E d \in 1..10 : Digits[d] = c

DigitVal(c) == (CHOOSE d \in 1..10 : Digits[d] = c) - 1

RECURSIVE DigitsVal(_)
\* the number a sequence of decimal digits denotes
DigitsVal(chars) ==
    IF Len(chars) = 0 THEN 0
    ELSE 10 * DigitsVal(SubSeq(chars, 1, Len(chars) - 1)) + DigitVal(chars[Len(chars)])

RECURSIVE NatStr(_)
\* the decimal digits of a natural number, no leading zero
NatStr(num) ==
    IF num < 10 THEN <<Digits[num + 1]>>
    ELSE NatStr(num \div 10) \o <<Digits[(num % 10) + 1]>>

\* str(x): a string is itself, an integer its decimal numeral, None "None"
PyStr(x) ==
    CASE x.t = "str" -> x.s
      [] x.t = "int" -> IF x.n < 0 THEN <<"-">> \o NatStr(0 - x.n) ELSE NatStr(x.n)
      [] OTHER -> <<"N", "o", "n", "e">>

Signed(chars) == Len(chars) > 0 /\ chars[1] \in {"-", "+"}

Unsigned(chars) == IF Signed(chars) THEN SubSeq(chars, 2, Len(chars)) ELSE chars

\* int(x): [ok, val]; a string must be an optionally signed run of digits
\* (surrounding blanks and underscores are outside the alphabet of the model)
PyInt(x) ==
    CASE x.t = "int" -> [ok |-> TRUE, val |-> x]
      [] x.t = "str" ->
           IF Len(Unsigned(x.s)) > 0
              /\ \A i \in 1..Len(Unsigned(x.s)) : IsDigit(Unsigned(x.s)[i])
           THEN [ok |-> TRUE,
                 val |-> IntV(IF x.s[1] = "-" THEN 0 - DigitsVal(Unsigned(x.s))
                              ELSE DigitsVal(Unsigned(x.s)))]
           ELSE [ok |-> FALSE, val |-> x]
      [] OTHER -> [ok |-> FALSE, val |-> x]

\* str(float(x)) of an integer (below 10^16): its numeral followed by ".0"
PyStrFloat(x) ==
    Bind(PyInt(x), LAMBDA n :
        IF n.ok THEN [ok |-> TRUE, val |-> PyStr(n.val) \o <<".", "0">>]
        ELSE [ok |-> FALSE, val |-> <<>>])

\* isinstance(x, ty) for the scalar types str and int
IsInstance(x, ty) == x.t = ty

\* -------------------------------------------------- the csv module's reader

COMMA == ","
QUOTE == "\""
LF == "\n"
CR == "\r"
\* the end-of-line marker the reader feeds itself after each physical line
EOL == "EOL"

\* parse_save_field: the field under construction joins the record
SaveField(st) == [st EXCEPT !.fields = Append(st.fields, st.field), !.field = <<>>]

AddChar(st, c) == [st EXCEPT !.field = Append(st.field, c)]

\* parse_process_char of csv.reader (dialect excel: delimiter ",", quotechar
\* '"', doublequote, no escapechar, not strict)
ProcessChar(st, c) ==
    LET nl == c \in {LF, CR, EOL}
        after == IF c = EOL THEN "START_RECORD" ELSE "EAT_CRNL"
        StartField ==
            IF nl THEN [SaveField(st) EXCEPT !.state = after]
            ELSE IF c = QUOTE THEN [st EXCEPT !.state = "IN_QUOTED_FIELD"]
            ELSE IF c = COMMA THEN [SaveField(st) EXCEPT !.state = "START_FIELD"]
            ELSE [AddChar(st, c) EXCEPT !.state = "IN_FIELD"]
    IN  CASE st.state = "START_RECORD" ->
               IF c = EOL THEN st
               ELSE IF c \in {LF, CR} THEN [st EXCEPT !.state = "EAT_CRNL"]
               ELSE StartField
          [] st.state = "START_FIELD" -> StartField
          [] st.state = "IN_FIELD" ->
               IF nl THEN [SaveField(st) EXCEPT !.state = after]
               ELSE IF c = COMMA THEN [SaveField(st) EXCEPT !.state = "START_FIELD"]
               ELSE AddChar(st, c)
          [] st.state = "IN_QUOTED_FIELD" ->
               IF c = EOL THEN st
               ELSE IF c = QUOTE THEN [st EXCEPT !.state = "QUOTE_IN_QUOTED_FIELD"]
               ELSE AddChar(st, c)
          [] st.state = "QUOTE_IN_QUOTED_FIELD" ->
               IF c = QUOTE THEN [AddChar(st, c) EXCEPT !.state = "IN_QUOTED_FIELD"]
               ELSE IF c = COMMA THEN [SaveField(st) EXCEPT !.state = "START_FIELD"]
               ELSE IF nl THEN [SaveField(st) EXCEPT !.state = after]
               ELSE [AddChar(st, c) EXCEPT !.state = "IN_FIELD"]
          [] OTHER -> \* EAT_CRNL
               IF c \in {LF, CR} THEN st
               ELSE IF c = EOL THEN [st EXCEPT !.state = "START_RECORD"]
               ELSE [st EXCEPT !.state = "ERROR"]

\* a record is complete when the reader is back in START_RECORD after a line
EmitRecord(st) ==
    IF st.state = "START_RECORD"
    THEN [st EXCEPT !.records = Append(st.records, st.fields), !.fields = <<>>]
    ELSE st

\* one character of a physical line; the "\n" that ends the line is
\* followed by EOL, and a record the line completes is emitted
FeedChar(st, c) ==
    LET fed == ProcessChar(st, c)
    IN  IF c = LF /\ fed.state # "ERROR" THEN EmitRecord(ProcessChar(fed, EOL)) ELSE fed

\* the end of the input: a last line without "\n" gets its EOL; a field
\* still open is saved and its record emitted (the reader is not strict)
EndOfInput(text, st) ==
    LET last == IF Len(text) > 0 /\ text[Len(text)] # LF
                THEN EmitRecord(ProcessChar(st, EOL)) ELSE st
    IN  IF last.state # "START_RECORD"
           /\ (Len(last.field) # 0 \/ last.state = "IN_QUOTED_FIELD")
        THEN EmitRecord([SaveField(last) EXCEPT !.state = "START_RECORD"])
        ELSE last

RECURSIVE ReadFrom(_, _, _)
\* csv.reader over io.StringIO(text) from character i on: the stream yields
\* the physical lines (each up to and including its "\n"), every line is
\* fed character by character.  The state after character i is computed
\* once, whatever the number of its uses.
ReadFrom(text, i, st) ==
    IF st.state = "ERROR" THEN st
    ELSE IF i > Len(text) THEN EndOfInput(text, st)
    ELSE CHOOSE end \in {ReadFrom(text, i + 1, fed) : fed \in {FeedChar(st, text[i])}} : TRUE

\* list(csv.reader(io.StringIO(text))): the records read, and whether the
\* reader raised csv.Error after them
Reader(text) ==
    LET st == ReadFrom(text, 1, [state |-> "START_RECORD", field |-> <<>>,
                                  fields |-> <<>>, records |-> <<>>])
    IN  [records |-> st.records, error |-> st.state = "ERROR"]

Range(s) == {s[i] : i \in 1..Len(s)}

\* DictReader.__next__ on one non-empty record: names are paired with the
\* cells by position (for a repeated name the last position wins), names
\* beyond the cells get restval None, cells beyond the names go under the
\* key restkey None
DictRow(fieldnames, row) ==
    [kw |-> [k \in Range(fieldnames) |->
                LET last == CHOOSE i \in 1..Len(fieldnames) :
                                /\ fieldnames[i] = k
                                /\ \A j \in 1..Len(fieldnames) : fieldnames[j] = k => j <= i
                IN  IF last <= Len(row) THEN StrV(row[last]) ELSE None],
     restkey |-> Len(row) > Len(fieldnames)]

RECURSIVE SkipEmpty(_)
\* DictReader skips the records that are empty lists (blank lines)
SkipEmpty(records) ==
    IF Len(records) = 0 THEN <<>>
    ELSE IF Head(records) = <<>> THEN SkipEmpty(Tail(records))
    ELSE <<Head(records)>> \o SkipEmpty(Tail(records))

\* csv.DictReader(csvfile): fieldnames is the first record (None, here
\* has = FALSE, when the text has none); rows are the mappings of the
\* non-empty records after it
DictReader(text) ==
    Bind(Reader(text), LAMBDA r :
        IF Len(r.records) = 0
        THEN [has |-> FALSE, fieldnames |-> <<>>, rows |-> <<>>, error |-> r.error]
        ELSE Bind(SkipEmpty(Tail(r.records)), LAMBDA data :
                 [has |-> TRUE, fieldnames |-> Head(r.records),
                  rows |-> [i \in 1..Len(data) |-> DictRow(Head(r.records), data[i])],
                  error |-> r.error]))

\* -------------------------------------------------- the csv module's writer

Special == {COMMA, QUOTE, CR, LF}

RECURSIVE DoubleQuotes(_)
DoubleQuotes(s) ==
    IF Len(s) = 0 THEN <<>>
    ELSE (IF Head(s) = QUOTE THEN <<QUOTE, QUOTE>> ELSE <<Head(s)>>)
         \o DoubleQuotes(Tail(s))

\* QUOTE_MINIMAL: a field is quoted when it holds a special character, and
\* when it is the empty only field of its record
WriteField(s, alone) ==
    IF (\E i \in 1..Len(s) : s[i] \in Special) \/ (alone /\ Len(s) = 0)
    THEN <<QUOTE>> \o DoubleQuotes(s) \o <<QUOTE>>
    ELSE s

RECURSIVE JoinFields(_, _)
JoinFields(cells, alone) ==
    IF Len(cells) = 0 THEN <<>>
    ELSE IF Len(cells) = 1 THEN WriteField(cells[1], alone)
    ELSE WriteField(cells[1], alone) \o <<COMMA>> \o JoinFields(Tail(cells), alone)

\* a writer ending its lines with "\n" alone
UnixTerminator == <<LF>>

\* the writer's lineterminator
LineTerminator == <<CR, LF>>

\* csv.writer.writerow(cells)
WriteRow(cells) == JoinFields(cells, Len(cells) = 1) \o LineTerminator

\* DictWriter.writeheader()
WriteHeader(fieldnames) == WriteRow(fieldnames)

\* DictWriter.writerow(rowdict) with extrasaction "raise": a key that is no
\* fieldname raises ValueError; the cells follow the fieldnames' order
DictWriteRow(fieldnames, rowdict) ==
    IF ~(DOMAIN rowdict \subseteq Range(fieldnames))
    THEN [err |-> "ValueError", line |-> <<>>]
    ELSE [err |-> "ok",
          line |-> WriteRow([i \in 1..Len(fieldnames) |->
                               IF fieldnames[i] \in DOMAIN rowdict
                               THEN rowdict[fieldnames[i]] ELSE <<>>])]

\* ------------------------------------------------------------------ schemas

filename == <<"f", "i", "l", "e", "n", "a", "m", "e">>
temp == <<"t", "e", "m", "p">>
\* a column name that no schema declares
other == <<"i", "d">>

\* a field's annotation: a scalar type (no __origin__) or list[arg]
Scalar(ty) == [origin |-> "None", arg |-> ty]
ListOf(ty) == [origin |-> "list", arg |-> ty]

\* a field declared without csvfield has empty metadata
NoMetadata == [k \in {} |-> "identity"]

\* csvfield(parser, serializer): the field's metadata
csvfield(parser, serializer) ==
    [k \in {"_parser", "_serializer"} |-> IF k = "_parser" THEN parser ELSE serializer]

Field(name, type, metadata) == [name |-> name, type |-> type, metadata |-> metadata]

\* the dataclasses: SampleLine of the tests, ExampleLine and ExampleCols of
\* the examples, DerivedLine (a subclass of ExampleLine that adds nothing),
\* TwinCols (ExampleLine's fields as lists), and two CSVColumns subclasses
\* with one field that is no list
LineClasses == {"SampleLine", "ExampleLine", "DerivedLine"}
ColumnsClasses == {"ExampleCols", "TwinCols", "ScalarFirstCols", "ScalarLastCols"}

\* dc.fields(cls)
Fields(cls) ==
    CASE cls = "SampleLine" ->
           <<Field(filename, Scalar("str"), NoMetadata),
             Field(temp, Scalar("int"), csvfield("int", "strfloat"))>>
      [] cls \in {"ExampleLine", "DerivedLine"} ->
           <<Field(filename, Scalar("str"), NoMetadata),
             Field(temp, Scalar("int"), csvfield("int", "str"))>>
      [] cls = "ExampleCols" ->
           <<Field(filename, ListOf("str"), csvfield("str", "str")),
             Field(temp, ListOf("int"), csvfield("int", "str"))>>
      [] cls = "TwinCols" ->
           <<Field(filename, ListOf("str"), NoMetadata),
             Field(temp, ListOf("int"), csvfield("int", "str"))>>
      [] cls = "ScalarFirstCols" ->
           <<Field(filename, Scalar("str"), csvfield("str", "str")),
             Field(temp, ListOf("int"), csvfield("int", "str"))>>
      [] cls = "ScalarLastCols" ->
           <<Field(filename, ListOf("str"), NoMetadata),
             Field(temp, Scalar("int"), csvfield("int", "str"))>>

\* issubclass(c, d) for the dataclasses above
IsSubclass(c, d) == c = d \/ (c = "DerivedLine" /\ d = "ExampleLine")

FieldNames(cls) == [i \in 1..Len(Fields(cls)) |-> Fields(cls)[i].name]

\* calling a parser: identity (lambda x: x), int or str
CallParser(parser, x) ==
    CASE parser = "int" -> PyInt(x)
      [] parser = "str" -> [ok |-> TRUE, val |-> StrV(PyStr(x))]
      [] OTHER -> [ok |-> TRUE, val |-> x]

\* calling a serializer: str, or lambda x: str(float(x))
CallSerializer(serializer, x) ==
    CASE serializer = "strfloat" -> PyStrFloat(x)
      [] OTHER -> [ok |-> TRUE, val |-> PyStr(x)]

ParserOf(f) ==
    IF "_parser" \in DOMAIN f.metadata THEN f.metadata["_parser"] ELSE "identity"

\* the serializer lookup with the declared serializer ignored
SerializerOfDefault(f) == "str"

SerializerOf(f) ==
    IF "_serializer" \in DOMAIN f.metadata THEN f.metadata["_serializer"] ELSE "str"

_check_if_is_generic_list(type) == type.origin = "list"

_check_all_annotations_are_list(cls) ==
    \A i \in 1..Len(Fields(cls)) : _check_if_is_generic_list(Fields(cls)[i].type)

_unwrap_list(type) == type.arg

\* ------------------------------------------------------------------ CSVLine

RECURSIVE LinePostInitUnchecked(_, _, _)
\* __post_init__ with the isinstance check left out
LinePostInitUnchecked(fields, i, self) ==
    IF i > Len(fields) THEN self
    ELSE Bind(CallParser(ParserOf(fields[i]), self.vals[fields[i].name]), LAMBDA p :
             IF ~p.ok
             THEN [self EXCEPT !.err = "ParserError", !.calls = @ + 1, !.at = i]
             ELSE LinePostInitUnchecked(fields, i + 1,
                      [self EXCEPT !.vals[fields[i].name] = p.val, !.calls = @ + 1]))

RECURSIVE LinePostInit(_, _, _)
\* CSVLine.__post_init__ from field i on: parse, store, check the type.
\* calls counts the parser calls made, at is the field that raised.
LinePostInit(fields, i, self) ==
    IF i > Len(fields) THEN self
    ELSE Bind(CallParser(ParserOf(fields[i]), self.vals[fields[i].name]), LAMBDA p :
             IF ~p.ok
             THEN [self EXCEPT !.err = "ParserError", !.calls = @ + 1, !.at = i]
             ELSE IF ~IsInstance(p.val, fields[i].type.arg)
             THEN [self EXCEPT !.vals[fields[i].name] = p.val, !.calls = @ + 1,
                               !.err = "TypeMismatch", !.at = i]
             ELSE LinePostInit(fields, i + 1,
                      [self EXCEPT !.vals[fields[i].name] = p.val, !.calls = @ + 1]))

\* cls(**kw) for a CSVLine subclass: the generated __init__ stores the
\* arguments, then __post_init__ runs
NewLine(cls, kw) ==
    LinePostInit(Fields(cls), 1,
                 [err |-> "ok", cls |-> cls, vals |-> kw, calls |-> 0, at |-> 0])

\* the mapping d with d[k] = v
SetItem(d, k, v) == [j \in DOMAIN d \cup {k} |-> IF j = k THEN v ELSE d[j]]

RECURSIVE SerializeFields(_, _, _, _)
\* the mapping {f.name: serializer(get(f.name))} built in field order; get
\* is the value to serialize for each field name
SerializeFields(fields, i, get, acc) ==
    IF i > Len(fields) THEN acc
    ELSE Bind(CallSerializer(SerializerOf(fields[i]), get[fields[i].name]), LAMBDA s :
             IF ~s.ok THEN [acc EXCEPT !.err = "SerializerError"]
             ELSE SerializeFields(fields, i + 1, get,
                      [acc EXCEPT !.dict = SetItem(@, fields[i].name, s.val)]))

EmptyDict == [k \in {} |-> <<>>]

\* CSVLine.serialized_dict
serialized_dict(self) ==
    SerializeFields(Fields(self.cls), 1, self.vals, [err |-> "ok", dict |-> EmptyDict])

\* --------------------------------------------------------------- CSVColumns

RECURSIVE ParseList(_, _, _, _)
\* [parser(x) for x in xs] from element i on: the list built, or the
\* parser's exception; n counts the calls made
ParseList(parser, xs, i, acc) ==
    IF i > Len(xs) THEN acc
    ELSE Bind(CallParser(parser, xs[i]), LAMBDA p :
             IF ~p.ok THEN [acc EXCEPT !.ok = FALSE, !.n = @ + 1]
             ELSE ParseList(parser, xs, i + 1,
                            [acc EXCEPT !.val = Append(@, p.val), !.n = @ + 1]))

RECURSIVE ColumnsPostInit(_, _, _)
\* CSVColumns.__post_init__ from field i on: the field must be a list[T];
\* its elements are parsed and stored; each must then be a T
ColumnsPostInit(fields, i, self) ==
    IF i > Len(fields) THEN self
    ELSE IF ~_check_if_is_generic_list(fields[i].type)
    THEN [self EXCEPT !.err = "SchemaError", !.at = i]
    ELSE Bind(ParseList(ParserOf(fields[i]), self.vals[fields[i].name], 1,
                        [ok |-> TRUE, val |-> <<>>, n |-> 0]), LAMBDA p :
             IF ~p.ok
             THEN [self EXCEPT !.err = "ParserError", !.calls = @ + p.n, !.at = i]
             ELSE IF \E j \in 1..Len(p.val) :
                        ~IsInstance(p.val[j], _unwrap_list(fields[i].type))
             THEN [self EXCEPT !.vals[fields[i].name] = p.val, !.calls = @ + p.n,
                               !.stored = @ + 1, !.err = "TypeMismatch", !.at = i]
             ELSE ColumnsPostInit(fields, i + 1,
                      [self EXCEPT !.vals[fields[i].name] = p.val, !.calls = @ + p.n,
                                   !.stored = @ + 1]))

\* cls(**kw) for a CSVColumns subclass; stored counts the fields whose
\* parsed list was stored
NewColumns(cls, kw) ==
    ColumnsPostInit(Fields(cls), 1,
                    [err |-> "ok", cls |-> cls, vals |-> kw, calls |-> 0,
                     stored |-> 0, at |-> 0])

RECURSIVE IterRowsReversed(_, _, _, _)
\* the traversal with each row put before the rows yielded so far
IterRowsReversed(self, i, n_elements, acc) ==
    IF i > n_elements THEN acc
    ELSE IF \E k \in DOMAIN self.vals : Len(self.vals[k]) < i
    THEN [acc EXCEPT !.err = "IndexError"]
    ELSE IterRowsReversed(self, i + 1, n_elements,
                  [acc EXCEPT !.rows = <<[k \in DOMAIN self.vals |-> self.vals[k][i]]>> \o @])

RECURSIVE IterRows(_, _, _, _)
\* the rows a generator over range(n_elements) yields from index i on: row
\* i reads position i of every field's list and fails with IndexError where
\* a list is too short; what was yielded before stays yielded
IterRows(self, i, n_elements, acc) ==
    IF i > n_elements THEN acc
    ELSE IF \E k \in DOMAIN self.vals : Len(self.vals[k]) < i
    THEN [acc EXCEPT !.err = "IndexError"]
    ELSE IterRows(self, i + 1, n_elements,
                  [acc EXCEPT !.rows = Append(@, [k \in DOMAIN self.vals |-> self.vals[k][i]])])

\* __iter__ with the number of rows taken from the shortest list
IterOverShortest(self) ==
    LET n_elements == CHOOSE n \in {Len(self.vals[k]) : k \in DOMAIN self.vals} :
                          \A k \in DOMAIN self.vals : n <= Len(self.vals[k])
    IN  IterRows(self, 1, n_elements, [err |-> "ok", rows |-> <<>>])

\* CSVColumns.__iter__: the length is that of the first declared field
Iter(self) ==
    LET fields == Fields(self.cls)
        some_attr == fields[1].name
        n_elements == Len(self.vals[some_attr])
    IN  IterRows(self, 1, n_elements, [err |-> "ok", rows |-> <<>>])

RECURSIVE SerializeAt(_, _, _, _)
\* {f.name: serializer(get(f.name)[i])} built in field order: a list too
\* short for index i raises IndexError, a serializer may raise
SerializeAt(self, i, j, acc) ==
    IF j > Len(Fields(self.cls)) THEN acc
    ELSE IF Len(self.vals[Fields(self.cls)[j].name]) < i
    THEN [acc EXCEPT !.err = "IndexError"]
    ELSE Bind(CallSerializer(SerializerOf(Fields(self.cls)[j]),
                             self.vals[Fields(self.cls)[j].name][i]), LAMBDA s :
             IF ~s.ok THEN [acc EXCEPT !.err = "SerializerError"]
             ELSE SerializeAt(self, i, j + 1,
                      [acc EXCEPT !.dict = SetItem(@, Fields(self.cls)[j].name, s.val)]))

RECURSIVE SerializerRows(_, _, _, _)
SerializerRows(self, i, n_elements, acc) ==
    IF i > n_elements THEN acc
    ELSE Bind(SerializeAt(self, i, 1, [err |-> "ok", dict |-> EmptyDict]), LAMBDA d :
             IF d.err # "ok" THEN [acc EXCEPT !.err = d.err]
             ELSE SerializerRows(self, i + 1, n_elements,
                                 [acc EXCEPT !.rows = Append(@, d.dict)]))

\* CSVColumns.serializer_iterator: the same traversal, every element run
\* through its field's serializer
serializer_iterator(self) ==
    LET fields == Fields(self.cls)
        some_attr == fields[1].name
        n_elements == Len(self.vals[some_attr])
    IN  SerializerRows(self, 1, n_elements, [err |-> "ok", rows |-> <<>>])

\* ------------------------------------------------------------- load, loads

\* the objects the caller sees: a record of a dataclass, and a Python list
Object(base, r) == [base |-> base, cls |-> r.cls, vals |-> r.vals]
List(items) == [base |-> "list", items |-> items]
NoValue == [base |-> "None"]

IsLine(cls) == cls \in LineClasses
IsColumns(cls) == cls \in ColumnsClasses

RECURSIVE LoadLinesSkipping(_, _, _, _)
\* the comprehension with the rows whose record cannot be built left out
LoadLinesSkipping(row_class, reader, i, acc) ==
    IF i > Len(reader.rows)
    THEN IF reader.error THEN [acc EXCEPT !.err = "csv.Error"] ELSE acc
    ELSE IF reader.rows[i].restkey
    THEN LoadLinesSkipping(row_class, reader, i + 1, acc)
    ELSE Bind(NewLine(row_class, reader.rows[i].kw), LAMBDA r :
             IF r.err # "ok"
             THEN LoadLinesSkipping(row_class, reader, i + 1,
                      [acc EXCEPT !.calls = @ + r.calls])
             ELSE LoadLinesSkipping(row_class, reader, i + 1,
                      [acc EXCEPT !.built = Append(@, Object("CSVLine", r)),
                                  !.calls = @ + r.calls]))

RECURSIVE LoadLines(_, _, _, _)
\* [row_class(**x) for x in reader] from row i on.  A row with cells under
\* the key None cannot be passed as keywords (TypeError); the first row
\* whose record cannot be built ends the comprehension.
LoadLines(row_class, reader, i, acc) ==
    IF i > Len(reader.rows)
    THEN IF reader.error THEN [acc EXCEPT !.err = "csv.Error"] ELSE acc
    ELSE IF reader.rows[i].restkey THEN [acc EXCEPT !.err = "TypeError", !.at = i]
    ELSE Bind(NewLine(row_class, reader.rows[i].kw), LAMBDA r :
             IF r.err # "ok"
             THEN [acc EXCEPT !.err = r.err, !.calls = @ + r.calls, !.at = i]
             ELSE LoadLines(row_class, reader, i + 1,
                      [acc EXCEPT !.built = Append(@, Object("CSVLine", r)),
                                  !.calls = @ + r.calls]))

\* the branch of load for a CSVColumns subclass with the last data line's
\* cell left out of every column but the first declared
LoadColumnsRagged(row_class, reader, start) ==
    IF ~_check_all_annotations_are_list(row_class)
    THEN [start EXCEPT !.err = "SchemaError"]
    ELSE IF reader.error THEN [start EXCEPT !.err = "csv.Error"]
    ELSE Bind(NewColumns(row_class,
                         [col \in Range(FieldNames(row_class)) |->
                             [i \in 1..(IF col = FieldNames(row_class)[1] \/ Len(reader.rows) = 0
                                        THEN Len(reader.rows) ELSE Len(reader.rows) - 1) |->
                                 reader.rows[i].kw[col]]]),
              LAMBDA r :
                 IF r.err # "ok"
                 THEN [start EXCEPT !.err = r.err, !.calls = r.calls, !.at = r.at]
                 ELSE [start EXCEPT !.calls = r.calls,
                                    !.val = Object("CSVColumns", r),
                                    !.built = <<Object("CSVColumns", r)>>])

\* the branch of load for a CSVColumns subclass with the data lines taken
\* last to first
LoadColumnsReversed(row_class, reader, start) ==
    IF ~_check_all_annotations_are_list(row_class)
    THEN [start EXCEPT !.err = "SchemaError"]
    ELSE IF reader.error THEN [start EXCEPT !.err = "csv.Error"]
    ELSE Bind(NewColumns(row_class,
                         [col \in Range(FieldNames(row_class)) |->
                             [i \in 1..Len(reader.rows) |->
                                 reader.rows[Len(reader.rows) + 1 - i].kw[col]]]),
              LAMBDA r :
                 IF r.err # "ok"
                 THEN [start EXCEPT !.err = r.err, !.calls = r.calls, !.at = r.at]
                 ELSE [start EXCEPT !.calls = r.calls,
                                    !.val = Object("CSVColumns", r),
                                    !.built = <<Object("CSVColumns", r)>>])

\* the branch of load for a CSVColumns subclass, after the header check
LoadColumns(row_class, reader, start) ==
    IF ~_check_all_annotations_are_list(row_class)
    THEN [start EXCEPT !.err = "SchemaError"]
    ELSE IF reader.error THEN [start EXCEPT !.err = "csv.Error"]
    ELSE Bind(NewColumns(row_class,
                         [col \in Range(FieldNames(row_class)) |->
                             [i \in 1..Len(reader.rows) |-> reader.rows[i].kw[col]]]),
              LAMBDA r :
                 IF r.err # "ok"
                 THEN [start EXCEPT !.err = r.err, !.calls = r.calls, !.at = r.at]
                 ELSE [start EXCEPT !.calls = r.calls,
                                    !.val = Object("CSVColumns", r),
                                    !.built = <<Object("CSVColumns", r)>>])

\* the header check with "every declared name is in the header" in place
\* of the equality of the two sets
HeaderMismatchMissingOnly(expected_columns, reader) ==
    ~reader.has \/ ~(Range(expected_columns) \subseteq Range(reader.fieldnames))

\* the header check of load: no header at all, or a set of names that is
\* not the set of the declared names
HeaderMismatch(expected_columns, reader) ==
    ~reader.has \/ Range(expected_columns) # Range(reader.fieldnames)

\* what load returns when the comprehension ended without an exception
ReturnList(r) == IF r.err = "ok" THEN [r EXCEPT !.val = List(r.built)] ELSE r

\* load(csvfile, row_class).  val is what is returned (a list of records or
\* one columns record, NoValue when load raises); built holds the records
\* that had been constructed when load ended; calls counts the parser calls.
load(csvfile, row_class) ==
    Bind(DictReader(csvfile), LAMBDA reader :
        Bind([err |-> "ok", cls |-> row_class, val |-> NoValue, built |-> <<>>,
              calls |-> 0, at |-> 0], LAMBDA start :
            IF ~reader.has /\ reader.error THEN [start EXCEPT !.err = "csv.Error"]
            ELSE IF HeaderMismatch(FieldNames(row_class), reader)
            THEN [start EXCEPT !.err = "SchemaMismatch"]
            ELSE IF IsLine(row_class)
            THEN ReturnList(LoadLines(row_class, reader, 1, start))
            ELSE LoadColumns(row_class, reader, start)))

\* loads(csvfile, row_class): load over io.StringIO(csvfile)
loads(csvfile, row_class) == load(csvfile, row_class)

\* ------------------------------------------------------------- dump, dumps

RECURSIVE DumpLines(_, _, _, _, _)
\* the loop of dump over a list from row i on: a row that is no instance of
\* the first row's class raises; otherwise its serialized mapping is written
\* as a line
DumpLines(items, row_class, expected_columns, i, acc) ==
    IF i > Len(items) THEN acc
    ELSE IF ~IsSubclass(items[i].cls, row_class)
    THEN [acc EXCEPT !.err = "HeterogeneousCollection", !.at = i]
    ELSE Bind(serialized_dict(items[i]), LAMBDA out_dict :
             IF out_dict.err # "ok" THEN [acc EXCEPT !.err = out_dict.err, !.at = i]
             ELSE Bind(DictWriteRow(expected_columns, out_dict.dict), LAMBDA w :
                      IF w.err # "ok" THEN [acc EXCEPT !.err = w.err, !.at = i]
                      ELSE DumpLines(items, row_class, expected_columns, i + 1,
                               [acc EXCEPT !.out = @ \o w.line, !.lines = @ + 1])))

RECURSIVE WriteRows(_, _, _, _)
WriteRows(expected_columns, dicts, i, acc) ==
    IF i > Len(dicts) THEN acc
    ELSE Bind(DictWriteRow(expected_columns, dicts[i]), LAMBDA w :
             IF w.err # "ok" THEN [acc EXCEPT !.err = w.err, !.at = i]
             ELSE WriteRows(expected_columns, dicts, i + 1,
                            [acc EXCEPT !.out = @ \o w.line, !.lines = @ + 1]))

\* the branch of dump for a list of records with an empty list taken as
\* nothing to write
DumpListEmptyAllowed(csvfile, items) ==
    IF Len(items) = 0
    THEN [err |-> "ok", out |-> csvfile, lines |-> 0, at |-> 0]
    ELSE DumpLines(items, items[1].cls, FieldNames(items[1].cls), 1,
                   [err |-> "ok", out |-> csvfile \o WriteHeader(FieldNames(items[1].cls)),
                    lines |-> 0, at |-> 0])

\* the branch of dump for a list of records: out is the stream's content
\* when dump ends, lines the number of data lines written, at the row that
\* raised
DumpList(csvfile, items) ==
    IF Len(items) = 0
    THEN [err |-> "IndexError", out |-> csvfile, lines |-> 0, at |-> 0]
    ELSE DumpLines(items, items[1].cls, FieldNames(items[1].cls), 1,
                   [err |-> "ok", out |-> csvfile \o WriteHeader(FieldNames(items[1].cls)),
                    lines |-> 0, at |-> 0])

\* the branch of dump for one CSVColumns record: the rows the generator
\* yields are written as they come, so those before a failing row are out
DumpColumns(csvfile, self) ==
    Bind(serializer_iterator(self), LAMBDA it :
        Bind(WriteRows(FieldNames(self.cls), it.rows, 1,
                       [err |-> "ok", out |-> csvfile \o WriteHeader(FieldNames(self.cls)),
                        lines |-> 0, at |-> 0]), LAMBDA w :
            IF w.err = "ok" /\ it.err # "ok"
            THEN [w EXCEPT !.err = it.err, !.at = Len(it.rows) + 1]
            ELSE w))

\* dump(csvfile, data): csvfile is the stream's content before the call
dump(csvfile, data) ==
    IF data.base = "list" THEN DumpList(csvfile, data.items)
    ELSE IF data.base = "CSVColumns" THEN DumpColumns(csvfile, data)
    ELSE [err |-> "ok", out |-> csvfile, lines |-> 0, at |-> 0]

\* dumps(data): dump into a fresh io.StringIO, whose value is returned when
\* dump returns
dumps(data) ==
    Bind(dump(<<>>, data), LAMBDA d :
        [err |-> d.err, val |-> IF d.err = "ok" THEN d.out ELSE <<>>, at |-> d.at])

\* ------------------------------------------------------------------- inputs

SeqsUpTo(S, n) == UNION {[1..k -> S] : k \in 0..n}

Kw(f, t) == [k \in {filename, temp} |-> IF k = filename THEN f ELSE t]

\* the keyword arguments a caller builds one CSVLine record from: values
\* of the declared types; a string holding the delimiter and a numeral the
\* parser converts; a filename of the wrong type; a temp the parser
\* rejects; both at once
LineArguments ==
    {Kw(StrV(<<"x">>), IntV(7)),
     Kw(StrV(<<"x", COMMA>>), StrV(<<"0", "7">>)),
     Kw(IntV(7), IntV(7)),
     Kw(StrV(<<"x">>), StrV(<<"x">>)),
     Kw(IntV(7), StrV(<<"x">>))}

\* the records to build: every kind of arguments for SampleLine and
\* ExampleLine, well-typed ones for DerivedLine
LineInputs ==
    {[cls |-> c, kw |-> k] : c \in {"SampleLine", "ExampleLine"}, k \in LineArguments}
        \cup {[cls |-> "DerivedLine", kw |-> Kw(StrV(<<"x">>), IntV(7))]}

\* the tables a caller holds: one entry per record to build
Tables == SeqsUpTo(LineInputs, MaxRows)

\* the same table as parallel lists, one per column
AsColumns(tbl) ==
    [k \in {filename, temp} |-> [i \in 1..Len(tbl) |-> tbl[i].kw[k]]]

\* the lists a caller passes to a CSVColumns constructor: the table's
\* columns as they are ("none"), or with the last element of the first
\* declared field's list, or of the other field's list, left out
Shortened == {"none", "first", "other"}

ColumnArguments(tbl, short) ==
    [k \in {filename, temp} |->
        IF Len(tbl) > 0 /\ ((short = "first" /\ k = filename) \/ (short = "other" /\ k = temp))
        THEN SubSeq(AsColumns(tbl)[k], 1, Len(tbl) - 1)
        ELSE AsColumns(tbl)[k]]

RECURSIVE Join(_, _)
Join(parts, sep) ==
    IF Len(parts) = 0 THEN <<>>
    ELSE IF Len(parts) = 1 THEN parts[1]
    ELSE parts[1] \o sep \o Join(Tail(parts), sep)

\* headers: the declared names in order and reordered, a name missing, a
\* name too many, a name repeated
Headers ==
    {<<filename, temp>>, <<temp, filename>>, <<filename>>,
     <<filename, temp, other>>, <<filename, temp, temp>>}

\* data lines as written in a file: two cells in either order, a numeral
\* with a leading zero, a short line, a long line, a blank line, a quoted
\* cell
DataLines ==
    {<<"x", COMMA, "7">>, <<"y", COMMA, "0", "7">>, <<"7", COMMA, "x">>,
     <<"x">>, <<"x", COMMA, "7", COMMA, "7">>, <<>>,
     <<"7", COMMA, QUOTE, "y", QUOTE>>}

\* line ends of a file: "\n", "\r\n", and "\n" with the last line unended
Newlines == {"LF", "CRLF", "LF-open"}

TextOf(header, lines, nl) ==
    LET sep == IF nl = "CRLF" THEN <<CR, LF>> ELSE <<LF>>
        body == Join(<<Join(header, <<COMMA>>)>> \o lines, sep)
    IN  IF nl = "LF-open" THEN body ELSE body \o sep

\* the texts a caller loads, the empty text among them
Texts ==
    {<<>>} \cup {TextOf(h, ls, nl) :
                    h \in Headers, ls \in SeqsUpTo(DataLines, MaxRows), nl \in Newlines}

\* ------------------------------------------------------------ state machine

NotYet == [err |-> "none"]

\* the list the caller holds: the records whose construction succeeded
Rows ==
    LET ok == SelectSeq(made, LAMBDA r : r.err = "ok")
    IN  List([i \in 1..Len(ok) |-> Object("CSVLine", ok[i])])

Kind(cls) == IF IsLine(cls) THEN "line" ELSE "columns"

Init ==
    /\ \/ mode = "objects" /\ table \in Tables /\ source = <<>>
       \/ mode = "text" /\ table = <<>> /\ source \in Texts
    /\ made = <<>>
    /\ columns = NotYet
    /\ wrote = [line |-> NotYet, columns |-> NotYet]
    /\ loaded = [line |-> NotYet, columns |-> NotYet]
    /\ redump = NotYet
    /\ viewed = NotYet

\* the caller builds the next record of the table: cls(**kw)
Construct ==
    /\ mode = "objects"
    /\ Len(made) < Len(table)
    /\ made' = Append(made, NewLine(table[Len(made) + 1].cls, table[Len(made) + 1].kw))
    /\ UNCHANGED <<mode, table, columns, source, wrote, loaded, redump, viewed>>

\* the caller builds one CSVColumns record from the table's columns, of
\* equal or of unequal lengths
ConstructColumns(cls, short) ==
    /\ mode = "objects"
    /\ Len(made) = Len(table)
    /\ columns.err = "none"
    /\ wrote.line.err = "none" /\ wrote.columns.err = "none"
    /\ columns' = NewColumns(cls, ColumnArguments(table, short))
    /\ UNCHANGED <<mode, table, made, source, wrote, loaded, redump, viewed>>

\* dump(buffer, rows) into a fresh buffer, for the list of records
DumpRows ==
    /\ mode = "objects"
    /\ Len(made) = Len(table)
    /\ wrote.line.err = "none"
    /\ loaded.line.err = "none" /\ loaded.columns.err = "none"
    /\ viewed.err = "none"
    /\ wrote' = [wrote EXCEPT !.line = dump(<<>>, Rows)]
    /\ UNCHANGED <<mode, table, made, columns, source, loaded, redump, viewed>>

\* dump(buffer, cols) into a fresh buffer, for the columns record
DumpCols ==
    /\ mode = "objects"
    /\ columns.err = "ok"
    /\ wrote.columns.err = "none"
    /\ loaded.line.err = "none" /\ loaded.columns.err = "none"
    /\ viewed.err = "none"
    /\ wrote' = [wrote EXCEPT !.columns = dump(<<>>, Object("CSVColumns", columns))]
    /\ UNCHANGED <<mode, table, made, columns, source, loaded, redump, viewed>>

\* the classes a text is loaded under: DerivedLine is left out, load sees
\* of a class only its fields, and those are ExampleLine's
LoadClasses == {"SampleLine", "ExampleLine"} \cup ColumnsClasses

\* a text is loaded in both shapes to compare them: under a CSVLine subclass
\* and under the CSVColumns subclass with its fields as lists
Comparable(c, d) ==
    {c, d} \in {{"SampleLine", "TwinCols"}, {"ExampleLine", "TwinCols"}}

\* loads(text, cls): of the caller's text, or of what a dump wrote
Loads(cls) ==
    LET k == Kind(cls)
        o == IF k = "line" THEN "columns" ELSE "line" IN
    /\ loaded[o].err # "none" => Comparable(loaded[o].cls, cls)
    /\ loaded[k].err = "none"
    /\ redump.err = "none" /\ viewed.err = "none"
    /\ mode = "objects" => wrote[k].err = "ok"
    /\ loaded' = [loaded EXCEPT
                    ![k] = loads(IF mode = "text" THEN source ELSE wrote[k].out, cls)]
    /\ UNCHANGED <<mode, table, made, columns, source, wrote, redump, viewed>>

\* dumps(loaded): what was loaded from the caller's text is dumped again
Redump(k) ==
    /\ mode = "text"
    /\ loaded[k].err = "ok"
    /\ redump.err = "none" /\ viewed.err = "none"
    /\ redump' = [dumps(loaded[k].val) EXCEPT !.at = k]
    /\ UNCHANGED <<mode, table, made, columns, source, wrote, loaded, viewed>>

\* list(cols) or list(cols.serializer_iterator()): the rows of the columns
\* record that load returned (from "loaded") or that the caller has just
\* built (from "made")
RowView(from, how) ==
    /\ viewed.err = "none" /\ redump.err = "none"
    /\ IF from = "loaded" THEN loaded.columns.err = "ok"
       ELSE columns.err = "ok" /\ wrote.line.err = "none" /\ wrote.columns.err = "none"
    /\ viewed' =
          Bind(IF from = "loaded" THEN loaded.columns.val
                                  ELSE Object("CSVColumns", columns), LAMBDA self :
              Bind(IF how = "__iter__" THEN Iter(self) ELSE serializer_iterator(self),
                   LAMBDA it : [err |-> it.err, rows |-> it.rows, of |-> from, how |-> how]))
    /\ UNCHANGED <<mode, table, made, columns, source, wrote, loaded, redump>>

Next ==
    \/ Construct
    \/ \E cls \in ColumnsClasses, short \in Shortened : ConstructColumns(cls, short)
    \/ DumpRows
    \/ DumpCols
    \/ \E cls \in LoadClasses : Loads(cls)
    \/ \E k \in {"line", "columns"} : Redump(k)
    \/ \E from \in {"loaded", "made"}, how \in {"__iter__", "serializer_iterator"} :
          RowView(from, how)

Spec == Init /\ [][Next]_vars

\* ------------------------------------------------------------------- claims

\* the text a load read: the caller's, or what the dump of that shape wrote
TextLoaded(k) == IF mode = "text" THEN source ELSE wrote[k].out

\* the set of column names of a text's header (empty without a header)
HeaderNames(text) ==
    Bind(Reader(text), LAMBDA r :
        IF Len(r.records) = 0 THEN {} ELSE Range(Head(r.records)))

\* serializer then parser gives back every field's value of the record
MutualInverses(o) ==
    \A j \in 1..Len(Fields(o.cls)) :
        Bind(Fields(o.cls)[j], LAMBDA f :
            Bind(CallSerializer(SerializerOf(f), o.vals[f.name]), LAMBDA ser :
                /\ ser.ok
                /\ CallParser(ParserOf(f), StrV(ser.val)) = [ok |-> TRUE, val |-> o.vals[f.name]]))

\* all records of the list are of the class of the first
OneSchema(items) == \A i \in 1..Len(items) : items[i].cls = items[1].cls

\* C1: for every list R of records of one CSVLine class whose parsers and
\* serializers are mutual inverses, the dump of R succeeds, and loading what
\* it wrote under that class succeeds and returns a list equal to R.
C1_RoundTrip ==
    (/\ mode = "objects"
     /\ Len(made) = Len(table)
     /\ OneSchema(Rows.items)
     /\ \A i \in 1..Len(Rows.items) : MutualInverses(Rows.items[i]))
    => /\ wrote.line.err \in {"none", "ok"}
       /\ (loaded.line.err # "none" /\ loaded.line.cls = Rows.items[1].cls)
          => (loaded.line.err = "ok" /\ loaded.line.val = Rows)

\* C2: load raises SchemaMismatch exactly when the set of the header's
\* names differs from the set of the declared names (a reordered header is
\* accepted, an extra or a missing name is not), and it does so before any
\* parser was called and before any record was built.
C2_HeaderValidation ==
    \A k \in {"line", "columns"} :
        loaded[k].err # "none" =>
            Bind(HeaderNames(TextLoaded(k)) # Range(FieldNames(loaded[k].cls)),
                 LAMBDA differs :
                    /\ (loaded[k].err = "SchemaMismatch") <=> differs
                    /\ differs => (loaded[k].calls = 0 /\ loaded[k].built = <<>>))

\* a header with a name too many was refused, nothing parsed
C2_Witness ==
    /\ mode = "text"
    /\ loaded.line.err = "SchemaMismatch"
    /\ loaded.line.calls = 0
    /\ other \in HeaderNames(source)
    /\ {filename, temp} \subseteq HeaderNames(source)

\* the outcome of parsing field j of class cls from the arguments kw
ParsedField(cls, kw, j) ==
    CallParser(ParserOf(Fields(cls)[j]), kw[Fields(cls)[j].name])

\* field j parses, to a value of its declared scalar type
GoodField(cls, kw, j) ==
    /\ ParsedField(cls, kw, j).ok
    /\ ParsedField(cls, kw, j).val.t = Fields(cls)[j].type.arg

\* every field of the record holds a value of its declared scalar type
WellTyped(o) ==
    \A j \in 1..Len(Fields(o.cls)) : o.vals[Fields(o.cls)[j].name].t = Fields(o.cls)[j].type.arg

\* C3: constructing a CSVLine record applies each field's parser (identity
\* when none is declared) to the argument, in declaration order; it
\* succeeds exactly when every parsed value is of its field's declared
\* type, and then stores the parsed values; the first parsed value of
\* another type raises TypeMismatch.  So every record there is, built by
\* the caller or by load, is well typed.
C3_TypeEnforcement ==
    /\ \A i \in 1..Len(made) :
          Bind(table[i], LAMBDA in :
              /\ (made[i].err = "ok")
                    <=> \A j \in 1..Len(Fields(in.cls)) : GoodField(in.cls, in.kw, j)
              /\ made[i].err = "ok"
                    => \A j \in 1..Len(Fields(in.cls)) :
                          made[i].vals[Fields(in.cls)[j].name] = ParsedField(in.cls, in.kw, j).val
              /\ \A j \in 1..Len(Fields(in.cls)) :
                    (/\ \A h \in 1..(j - 1) : GoodField(in.cls, in.kw, h)
                     /\ ParsedField(in.cls, in.kw, j).ok
                     /\ ~GoodField(in.cls, in.kw, j))
                    => (made[i].err = "TypeMismatch" /\ made[i].at = j /\ made[i].calls = j)
              /\ made[i].err = "ok" => made[i].calls = Len(Fields(in.cls)))
    /\ \A i \in 1..Len(Rows.items) : WellTyped(Rows.items[i])
    /\ loaded.line.err = "ok"
          => \A i \in 1..Len(loaded.line.val.items) : WellTyped(loaded.line.val.items[i])

\* one record was refused for a value of the wrong type, another was built
\* from a string that its parser turned into an int
C3_Witness ==
    /\ \E i \in 1..Len(made) : made[i].err = "TypeMismatch"
    /\ \E i \in 1..Len(made) :
          /\ made[i].err = "ok"
          /\ table[i].kw[temp].t = "str"
          /\ made[i].vals[temp].t = "int"

\* some declared field of the class is no list[T]
HasScalarField(cls) == \E j \in 1..Len(Fields(cls)) : Fields(cls)[j].type.origin # "list"

\* C4: when a field of a CSVColumns subclass is no list[T], constructing
\* the record, by the caller or within load, fails with SchemaError, and no
\* field's data was parsed or stored before, wherever the field stands.
C4_StructuralPrecondition ==
    /\ (columns.err # "none" /\ HasScalarField(columns.cls))
          => (columns.err = "SchemaError" /\ columns.calls = 0 /\ columns.stored = 0)
    /\ (loaded.columns.err \notin {"none", "SchemaMismatch", "csv.Error"}
            /\ HasScalarField(loaded.columns.cls))
          => (/\ loaded.columns.err = "SchemaError"
              /\ loaded.columns.calls = 0
              /\ loaded.columns.built = <<>>)

\* the outcome of parsing the cell of field j on data line i
ParsedCell(cls, rows, j, i) ==
    CallParser(ParserOf(Fields(cls)[j]), rows[i].kw[Fields(cls)[j].name])

\* every cell of column j parses
ColumnParses(cls, rows, j) ==
    \A i \in 1..Len(rows) : ParsedCell(cls, rows, j, i).ok

\* every cell of column j parses, to a value of the declared element type
GoodColumn(cls, rows, j) ==
    \A i \in 1..Len(rows) :
        /\ ParsedCell(cls, rows, j, i).ok
        /\ ParsedCell(cls, rows, j, i).val.t = Fields(cls)[j].type.arg

\* C5: load under a CSVColumns subclass transposes the table: the one
\* record returned has, for every field f and data line i, f[i] equal to
\* f's parser applied to the cell of column f on line i, lines in input
\* order, n elements per field for n data lines, every element of f's
\* element type.  The first field whose parsed list holds an element of
\* another type makes load fail with TypeMismatch.
C5_ColumnLoad ==
    (loaded.columns.err \notin {"none", "SchemaMismatch", "SchemaError", "csv.Error"})
    => Bind(DictReader(TextLoaded("columns")).rows, LAMBDA rows :
         Bind(loaded.columns.cls, LAMBDA cls :
            /\ (loaded.columns.err = "ok")
                  <=> \A j \in 1..Len(Fields(cls)) : GoodColumn(cls, rows, j)
            /\ loaded.columns.err = "ok"
                  => \A j \in 1..Len(Fields(cls)) :
                        Bind(loaded.columns.val.vals[Fields(cls)[j].name], LAMBDA col :
                            /\ Len(col) = Len(rows)
                            /\ \A i \in 1..Len(rows) :
                                  /\ col[i] = ParsedCell(cls, rows, j, i).val
                                  /\ col[i].t = Fields(cls)[j].type.arg)
            /\ \A j \in 1..Len(Fields(cls)) :
                  (/\ \A h \in 1..(j - 1) : GoodColumn(cls, rows, h)
                   /\ ColumnParses(cls, rows, j)
                   /\ ~GoodColumn(cls, rows, j))
                  => (loaded.columns.err = "TypeMismatch" /\ loaded.columns.at = j)))

\* a text of two different data lines under a reordered header was loaded
\* as columns
C5_Witness ==
    /\ mode = "text"
    /\ loaded.columns.err = "ok"
    /\ Head(Reader(source).records) = <<temp, filename>>
    /\ Len(loaded.columns.val.vals[temp]) = 2
    /\ loaded.columns.val.vals[filename][1] # loaded.columns.val.vals[filename][2]

\* a CSVLine class and a CSVColumns class with the same names and parsers,
\* the types being T and list[T]
EquivalentSchemas(lcls, ccls) ==
    /\ Len(Fields(lcls)) = Len(Fields(ccls))
    /\ \A j \in 1..Len(Fields(lcls)) :
          /\ Fields(lcls)[j].name = Fields(ccls)[j].name
          /\ ParserOf(Fields(lcls)[j]) = ParserOf(Fields(ccls)[j])
          /\ Fields(lcls)[j].type.origin = "None"
          /\ Fields(ccls)[j].type = [origin |-> "list", arg |-> Fields(lcls)[j].type.arg]

\* C6: when one text is accepted under a CSVLine class and under the
\* equivalent CSVColumns class, the rows that iterating the loaded columns
\* record yields are, row for row and value for value, the field mappings
\* of the records loaded under the CSVLine class.
C6_ShapeEquivalence ==
    (/\ viewed.err # "none"
     /\ viewed.of = "loaded"
     /\ viewed.how = "__iter__"
     /\ loaded.line.err = "ok"
     /\ EquivalentSchemas(loaded.line.cls, loaded.columns.cls)
     /\ TextLoaded("line") = TextLoaded("columns"))
    => /\ viewed.err = "ok"
       /\ viewed.rows = [i \in 1..Len(loaded.line.val.items) |-> loaded.line.val.items[i].vals]

\* a text of two different data lines was loaded in both shapes and the
\* columns record was iterated
C6_Witness ==
    /\ mode = "text"
    /\ viewed.err = "ok"
    /\ viewed.of = "loaded"
    /\ viewed.how = "__iter__"
    /\ loaded.line.err = "ok"
    /\ EquivalentSchemas(loaded.line.cls, loaded.columns.cls)
    /\ Len(viewed.rows) = 2
    /\ viewed.rows[1] # viewed.rows[2]

\* the serializer declared for a field, str when none is
DeclaredSerializer(f) ==
    IF "_serializer" \in DOMAIN f.metadata THEN f.metadata["_serializer"] ELSE "str"

\* a CSVLine class and a CSVColumns class with the same names and
\* serializers
EquivalentSerializers(lcls, ccls) ==
    /\ Len(Fields(lcls)) = Len(Fields(ccls))
    /\ \A j \in 1..Len(Fields(lcls)) :
          /\ Fields(lcls)[j].name = Fields(ccls)[j].name
          /\ DeclaredSerializer(Fields(lcls)[j]) = DeclaredSerializer(Fields(ccls)[j])

\* C7: for every table, of any number of rows, the dump of its list of
\* records and the dump of its columns record under the matching class with
\* equivalent serializers both succeed and write the same text.
C7_SameText ==
    (/\ mode = "objects"
     /\ wrote.line.err # "none"
     /\ wrote.columns.err # "none"
     /\ OneSchema(Rows.items)
     /\ \A i \in 1..Len(Rows.items) : EquivalentSerializers(Rows.items[i].cls, columns.cls)
     /\ \A k \in DOMAIN columns.vals :
           columns.vals[k] = [i \in 1..Len(Rows.items) |-> Rows.items[i].vals[k]])
    => /\ wrote.line.err = "ok"
       /\ wrote.columns.err = "ok"
       /\ wrote.line.out = wrote.columns.out

\* values of a declared type
TypedValues(ty) ==
    IF ty = "str" THEN {StrV(<<"x">>), StrV(<<"7">>)} ELSE {IntV(0), IntV(7)}

\* every field's parser gives back what its serializer was given
InverseSchema(cls) ==
    \A j \in 1..Len(Fields(cls)) :
        \A v \in TypedValues(Fields(cls)[j].type.arg) :
            Bind(CallSerializer(DeclaredSerializer(Fields(cls)[j]), v), LAMBDA ser :
                /\ ser.ok
                /\ CallParser(ParserOf(Fields(cls)[j]), StrV(ser.val)) = [ok |-> TRUE, val |-> v])

RECURSIVE CanonicalTerminators(_)
\* the text with every line end ("\r\n", "\n" or "\r") made "\r\n"
CanonicalTerminators(text) ==
    IF Len(text) = 0 THEN <<>>
    ELSE IF Len(text) > 1 /\ text[1] = CR /\ text[2] = LF
    THEN <<CR, LF>> \o CanonicalTerminators(SubSeq(text, 3, Len(text)))
    ELSE IF text[1] \in {CR, LF}
    THEN <<CR, LF>> \o CanonicalTerminators(Tail(text))
    ELSE <<text[1]>> \o CanonicalTerminators(Tail(text))

\* C8 as stated: for every text that loads accepts under a class whose
\* parsers and serializers are inverses, dumps(loads(text)) succeeds and is
\* the text with its line ends made canonical; reordered headers and texts
\* without data lines included.
C8_Idempotence ==
    (redump.err # "none" /\ InverseSchema(loaded[redump.at].cls))
    => (redump.err = "ok" /\ redump.val = CanonicalTerminators(source))

\* the cell is what the field's serializer writes for what its parser reads
StableCell(f, cell) ==
    Bind(CallParser(ParserOf(f), StrV(cell)), LAMBDA p :
        /\ p.ok
        /\ CallSerializer(DeclaredSerializer(f), p.val) = [ok |-> TRUE, val |-> cell])

\* the text is laid out as dump lays a table out: the header in declaration
\* order, every line ended, no blank line, no quote, one stable cell per
\* field on every data line
WriterLayout(text, cls) ==
    /\ Len(text) > 0
    /\ text[Len(text)] = LF
    /\ \A i \in 1..Len(text) : text[i] # QUOTE
    /\ Bind(Reader(text).records, LAMBDA recs :
          /\ Len(recs) >= 1
          /\ recs[1] = FieldNames(cls)
          /\ \A i \in 2..Len(recs) :
                /\ Len(recs[i]) = Len(Fields(cls))
                /\ \A j \in 1..Len(Fields(cls)) : StableCell(Fields(cls)[j], recs[i][j]))

\* C8 amended: for a text in the writer's layout that loads accepts under a
\* class whose parsers and serializers are inverses, dumps(loads(text)) is
\* the text with its line ends made canonical, unless the class is a
\* CSVLine subclass and the text has no data line: loads returns the empty
\* list then, and dumps raises IndexError.
C8_IdempotenceOnWriterLayout ==
    (/\ redump.err # "none"
     /\ InverseSchema(loaded[redump.at].cls)
     /\ WriterLayout(source, loaded[redump.at].cls))
    => IF redump.at = "line" /\ Len(loaded.line.val.items) = 0
       THEN redump.err = "IndexError"
       ELSE redump.err = "ok" /\ redump.val = CanonicalTerminators(source)

\* a text of two "\n"-ended data lines in the writer's layout was loaded
\* as records and dumped again, with "\r\n" line ends
C8_Witness ==
    /\ redump.err = "ok"
    /\ redump.at = "line"
    /\ InverseSchema(loaded.line.cls)
    /\ WriterLayout(source, loaded.line.cls)
    /\ Len(loaded.line.val.items) = 2
    /\ redump.val # source
    /\ redump.val = CanonicalTerminators(source)

\* one line of the output: the cells, quoted where the csv format needs
\* it, between commas, ended by "\r\n"
Line(cells) ==
    Join([j \in 1..Len(cells) |-> WriteField(cells[j], FALSE)], <<COMMA>>) \o <<CR, LF>>

\* the line of a mapping from field names to stored values
LineOf(cls, vals) ==
    Line([j \in 1..Len(Fields(cls)) |->
            CallSerializer(DeclaredSerializer(Fields(cls)[j]), vals[Fields(cls)[j].name]).val])

\* the layout of a list of records
LayoutOfList(items) ==
    Line(FieldNames(items[1].cls))
        \o Join([i \in 1..Len(items) |-> LineOf(items[i].cls, items[i].vals)], <<>>)

\* the layout of n rows of a columns record
LayoutOfColumns(cols, n) ==
    Line(FieldNames(cols.cls))
        \o Join([i \in 1..n |->
                   LineOf(cols.cls, [k \in DOMAIN cols.vals |-> cols.vals[k][i]])], <<>>)

\* the layout of a loaded value, a list or a columns record
LayoutOf(val) ==
    IF val.base = "list" THEN LayoutOfList(val.items)
    ELSE LayoutOfColumns(val, Len(val.vals[filename]))

\* C9: when dump succeeds, the text written is one header line of the field
\* names in declaration order, then one line per record in list order, or
\* per row index (of the first declared field's list) in index order, whose
\* cell under each field is the field's serializer (str when none is
\* declared) applied to the stored value; every line ends with "\r\n".
C9_DumpLayout ==
    /\ wrote.line.err = "ok" => wrote.line.out = LayoutOfList(Rows.items)
    /\ wrote.columns.err = "ok"
          => wrote.columns.out = LayoutOfColumns(columns, Len(columns.vals[filename]))
    /\ redump.err = "ok" => redump.val = LayoutOf(loaded[redump.at].val)

\* two records with a serializer of their own were dumped, and so was a
\* columns record of two rows
C9_Witness ==
    /\ wrote.line.err = "ok"
    /\ wrote.columns.err = "ok"
    /\ Len(Rows.items) = 2
    /\ Rows.items[1].cls = "SampleLine"
    /\ Rows.items[1].vals[filename] # Rows.items[2].vals[filename]
    /\ Len(columns.vals[temp]) = 2

\* the first record of another class than the first record's
FirstOther(items) ==
    CHOOSE i \in 1..Len(items) :
        /\ items[i].cls # items[1].cls
        /\ \A h \in 1..(i - 1) : items[h].cls = items[1].cls

\* C10: dump of a list of records raises HeterogeneousCollection whenever
\* some record is of another class than the first; it raises at the first
\* such record, having written the header and one line for each record
\* before it, and no line for it or for a later record.
C10_Heterogeneous ==
    wrote.line.err # "none" =>
        Bind(Rows.items, LAMBDA items :
            /\ (wrote.line.err = "HeterogeneousCollection")
                  <=> \E i \in 1..Len(items) : items[i].cls # items[1].cls
            /\ wrote.line.err = "HeterogeneousCollection"
                  => /\ wrote.line.at = FirstOther(items)
                     /\ wrote.line.lines = FirstOther(items) - 1
                     /\ wrote.line.out = LayoutOfList(SubSeq(items, 1, FirstOther(items) - 1)))

\* C11: whenever dump or dumps fails, on a heterogeneous list or on a
\* columns record whose traversal fails for instance, nothing was written:
\* the stream, empty before the call, is empty after it.
C11_NoPartialOutput ==
    /\ \A k \in {"line", "columns"} :
          wrote[k].err \notin {"none", "ok"} => wrote[k].out = <<>>
    /\ redump.err \notin {"none", "ok"} => redump.val = <<>>

\* the outcome of building the record of one data line: row_class(**x)
\* cannot take cells beyond the header's names, gathered under the key None
RecordOf(cls, row) ==
    IF row.restkey THEN [err |-> "TypeError"] ELSE NewLine(cls, row.kw)

\* the first data line whose record cannot be built
FirstBadLine(cls, rows) ==
    CHOOSE i \in 1..Len(rows) :
        /\ RecordOf(cls, rows[i]).err # "ok"
        /\ \A h \in 1..(i - 1) : RecordOf(cls, rows[h]).err = "ok"

\* C12: load under a CSVLine subclass returns, when it succeeds, exactly one
\* record per data line, in line order, each built from that line's mapping
\* of names to cells; when a line's record cannot be built, load fails with
\* that error at the first such line and returns nothing, the records of the
\* earlier lines included.
C12_RowLoadAllOrNothing ==
    (loaded.line.err \notin {"none", "SchemaMismatch", "csv.Error"})
    => Bind(DictReader(TextLoaded("line")).rows, LAMBDA rows :
         Bind(loaded.line.cls, LAMBDA cls :
            /\ (loaded.line.err = "ok")
                  <=> \A i \in 1..Len(rows) : RecordOf(cls, rows[i]).err = "ok"
            /\ loaded.line.err = "ok"
                  => loaded.line.val =
                        List([i \in 1..Len(rows) |-> Object("CSVLine", RecordOf(cls, rows[i]))])
            /\ loaded.line.err # "ok"
                  => /\ loaded.line.at = FirstBadLine(cls, rows)
                     /\ loaded.line.err = RecordOf(cls, rows[FirstBadLine(cls, rows)]).err
                     /\ loaded.line.val = NoValue))

\* a text whose first data line is valid and whose second is not was
\* loaded: load raised at line 2 and returned nothing
C12_Witness ==
    /\ mode = "text"
    /\ loaded.line.err \in {"ParserError", "TypeMismatch", "TypeError"}
    /\ loaded.line.at = 2
    /\ Len(loaded.line.built) = 1
    /\ loaded.line.val = NoValue

\* the length of the shortest list of a columns record
ShortestLength(cols) ==
    CHOOSE n \in {Len(cols.vals[k]) : k \in DOMAIN cols.vals} :
        \A k \in DOMAIN cols.vals : n <= Len(cols.vals[k])

\* the declared field of a name
FieldNamed(cls, k) ==
    Fields(cls)[CHOOSE j \in 1..Len(Fields(cls)) : Fields(cls)[j].name = k]

\* rows 1..n of a columns record, as they are or serialized
RowsOf(cols, how, n) ==
    [i \in 1..n |->
        [k \in DOMAIN cols.vals |->
            IF how = "__iter__" THEN cols.vals[k][i]
            ELSE CallSerializer(DeclaredSerializer(FieldNamed(cols.cls, k)), cols.vals[k][i]).val]]

\* every entry of the table gives every field of the class an element that
\* parses to the field's element type
ElementsFit(cls, tbl) ==
    \A i \in 1..Len(tbl) : \A j \in 1..Len(Fields(cls)) :
        Bind(CallParser(ParserOf(Fields(cls)[j]), tbl[i].kw[Fields(cls)[j].name]), LAMBDA p :
            p.ok /\ p.val.t = Fields(cls)[j].type.arg)

\* C13: a columns record is built from lists of different lengths without
\* an error.  Iterating it, plainly or through the serializers, takes the
\* number of rows from the first declared field's list: when that list is
\* the shortest, the other lists' surplus elements are left out silently;
\* when another list is shorter, the rows below that list's length are
\* yielded and then IndexError is raised.
C13_UnequalLengths ==
    /\ (/\ columns.err # "none"
        /\ ~HasScalarField(columns.cls)
        /\ ElementsFit(columns.cls, table))
       => columns.err = "ok"
    /\ (viewed.err # "none" /\ viewed.of = "made")
       => /\ viewed.rows = RowsOf(columns, viewed.how, ShortestLength(columns))
          /\ viewed.err =
                IF ShortestLength(columns) < Len(columns.vals[Fields(columns.cls)[1].name])
                THEN "IndexError" ELSE "ok"

\* a record whose second list is shorter than its first was iterated: one
\* row came out, then IndexError
C13_Witness ==
    /\ viewed.err = "IndexError"
    /\ viewed.of = "made"
    /\ Len(viewed.rows) = 1
    /\ Len(columns.vals[filename]) = 2
    /\ Len(columns.vals[temp]) = 1

\* C14: a columns record that load returned has, for every declared field,
\* a list of exactly as many elements as data lines were read, so all its
\* lists are equally long, and iterating it, plainly or through the
\* serializers, yields exactly that many rows and raises nothing.
C14_LoadedColumnsEqualLengths ==
    loaded.columns.err = "ok"
    => Bind(Len(DictReader(TextLoaded("columns")).rows), LAMBDA n :
          /\ \A k \in DOMAIN loaded.columns.val.vals : Len(loaded.columns.val.vals[k]) = n
          /\ (viewed.err # "none" /\ viewed.of = "loaded")
             => /\ viewed.err = "ok"
                /\ Len(viewed.rows) = n
                /\ viewed.rows = RowsOf(loaded.columns.val, viewed.how, n))

\* the columns record loaded from a text of two data lines was iterated
\* through the serializers: two rows, no error
C14_Witness ==
    /\ mode = "text"
    /\ loaded.columns.err = "ok"
    /\ viewed.err = "ok"
    /\ viewed.of = "loaded"
    /\ viewed.how = "serializer_iterator"
    /\ Len(viewed.rows) = 2
    /\ Len(DictReader(source).rows) = 2

\* C15: dump and dumps of an empty list of records raise IndexError at the
\* read of the first element, before anything is written: the stream holds
\* no header line and dumps returns no text.
C15_EmptyList ==
    /\ (wrote.line.err # "none" /\ Len(Rows.items) = 0)
       => wrote.line = [err |-> "IndexError", out |-> <<>>, lines |-> 0, at |-> 0]
    /\ (redump.err # "none" /\ redump.at = "line" /\ Len(loaded.line.val.items) = 0)
       => redump.err = "IndexError" /\ redump.val = <<>>

\* the list that load returned for a text with a header and no data line
\* was passed to dumps, which raised IndexError
C15_Witness ==
    /\ mode = "text"
    /\ loaded.line.err = "ok"
    /\ Len(loaded.line.val.items) = 0
    /\ redump.err = "IndexError"
    /\ redump.at = "line"
    /\ redump.val = <<>>

====
